---- MODULE Spec2Model ----
(***************************************************************************)
(* knoxite, lib/decode.go: the snapshot decode pipeline.                   *)
(*                                                                         *)
(* Byte strings are modelled by what the pipeline can tell about them:     *)
(*   - a blob (ciphertext-level bytes) is a record [key, gz, data]: the    *)
(*     bytes AES-sealed under `key` ("none": not sealed), gzip-framed      *)
(*     iff `gz`, carrying the plaintext `data` (a sequence of bytes);      *)
(*   - a Reed-Solomon shard is its length (0: nil, the fetch failed);      *)
(*   - a SHA-256 digest is a natural number, injective on the blobs of     *)
(*     the model (no collisions).                                          *)
(***************************************************************************)
EXTENDS Integers, Sequences, FiniteSets, TLC

(***************************************************************************)
(* Bounds of the model.                                                    *)
(***************************************************************************)
MaxDataParts == 2
MaxParityParts == 2
MaxShardLen == 2
MaxSize == 3
MaxArchives == 2
MaxChunks == 2
MaxPriorLen == 3
NumReaders == 2
MaxOffset == 3
MaxReadSize == 2

VARIABLES
    lc,         \* SpecLoad: the arguments and the result of one loadChunk invocation
    snapshot,   \* DecodeSnapshot: snapshot.Archives
    ai,         \* index into snapshot.Archives of the archive being decoded
    pc,         \* position of the goroutine of DecodeSnapshot
    p,          \* DecodeArchive: the progress record p
    ci,         \* DecodeArchive: the loop variable i
    buf,        \* DecodeArchive: chunk.Num and b, the plaintext loadChunk returned, and
                \* whether the backend's bytes were sealed under another password
    fs,         \* the file system at the target path of each archive
    fh,         \* the file handle f of each archive: state, offset, operations
    written,    \* logical indices of the chunks written by the current DecodeArchive
    returns,    \* the error returned by each DecodeArchive call so far
    stream,     \* the records received from the progress channel
    closed,     \* how many times the progress channel was closed
    rarc,       \* the archive the cache-backed calls read
    tk,         \* the calls of ReadArchive / DecodeArchiveData and the prefetch goroutines
    mutex,      \* the package-level mutex: 0 when free, else the task holding it
    cache,      \* the package-level cache: ShaSum -> bytes
    loads,      \* per ShaSum, the loadChunk invocations made
    hits,       \* per ShaSum, the lookups answered from the cache
    crashed     \* a panic has ended the process

loadVars == <<lc>>

readVars == <<rarc, tk, mutex, cache, loads, hits, crashed>>

restoreVars == <<snapshot, ai, pc, p, ci, buf, fs, fh, written, returns, stream, closed>>

vars == <<lc, snapshot, ai, pc, p, ci, buf, fs, fh, written, returns, stream, closed,
          rarc, tk, mutex, cache, loads, hits, crashed>>

(***************************************************************************)
(* Values                                                                  *)
(***************************************************************************)
\* the plaintexts of the model: sequences of the bytes 1 and 2
Plain == {<<>>, <<1>>, <<1, 2>>, <<2, 1>>}

Keys == {"none", "test", "wrong"}

Blobs == [key : Keys, gz : BOOLEAN, data : Plain]

PlainBlob(data) == [key |-> "none", gz |-> FALSE, data |-> data]

\* []byte{} : what every error return of decodeChunk / loadChunk carries
EmptyBytes == PlainBlob(<<>>)

\* repository.Password
Password == "test"

EncryptionNone == 0
EncryptionAES == 1
CompressionNone == 0
CompressionGZip == 1

(***************************************************************************)
(* Errors: one record shape for all of them, so that any two compare.      *)
(***************************************************************************)
NoError == [kind |-> "nil", msg |-> "", x |-> 0, y |-> 0]

ChunkError(num) == [kind |-> "ChunkError", msg |-> "", x |-> num, y |-> 0]

SeekError(offset) == [kind |-> "SeekError", msg |-> "", x |-> offset, y |-> 0]

CheckSumError(method, expected, found) ==
    [kind |-> "CheckSumError", msg |-> method, x |-> expected, y |-> found]

\* the Chunk field of the error is the argument of loadChunk and is left out
DataReconstructionError(blocksFound, failedBackends) ==
    [kind |-> "DataReconstructionError", msg |-> "", x |-> blocksFound, y |-> failedBackends]

CipherAuthError == [kind |-> "cipher", msg |-> "cipher: message authentication failed", x |-> 0, y |-> 0]

GzipError == [kind |-> "gzip", msg |-> "gzip: invalid header", x |-> 0, y |-> 0]

BackendError == [kind |-> "backend", msg |-> "", x |-> 0, y |-> 0]

(***************************************************************************)
(* Codec primitives                                                        *)
(***************************************************************************)
\* AES-GCM open: succeeds only on bytes sealed under the given password
Decrypt(b, password) ==
    IF b.key # "none" /\ b.key = password
    THEN [b |-> [b EXCEPT !.key = "none"], err |-> NoError]
    ELSE [b |-> EmptyBytes, err |-> CipherAuthError]

\* gunzip: succeeds only on a gzip frame (sealed bytes are no gzip frame)
Uncompress(b) ==
    IF b.key = "none" /\ b.gz
    THEN [b |-> [b EXCEPT !.gz = FALSE], err |-> NoError]
    ELSE [b |-> EmptyBytes, err |-> GzipError]

RECURSIVE DataCode(_)
DataCode(s) == IF s = <<>> THEN 1 ELSE DataCode(SubSeq(s, 1, Len(s) - 1)) * 4 + s[Len(s)]

KeyCode(k) == CASE k = "none" -> 0 [] k = "test" -> 1 [] OTHER -> 2

\* hex.EncodeToString(sha256.Sum256(b)): a number, different for different bytes
Sha256Hex(b) == (DataCode(b.data) * 2 + (IF b.gz THEN 1 ELSE 0)) * 3 + KeyCode(b.key)

(***************************************************************************)
(* decodeChunk.  steps is the list of the operations that were applied to  *)
(* the bytes, in the order they were applied.                              *)
(***************************************************************************)
DecryptStage(chunk, b) ==
    IF chunk.Encrypted = EncryptionAES
    THEN LET r == Decrypt(b, Password)
         IN  [b |-> r.b, err |-> r.err, steps |-> <<"decrypt">>]
    ELSE [b |-> b, err |-> NoError, steps |-> <<>>]

UncompressStage(chunk, b) ==
    IF chunk.Compressed = CompressionGZip
    THEN LET r == Uncompress(b)
         IN  [b |-> r.b, err |-> r.err, steps |-> <<"uncompress">>]
    ELSE [b |-> b, err |-> NoError, steps |-> <<>>]

ShaStage(chunk, b) ==
    LET shasum == Sha256Hex(b)
    IN  IF chunk.DecryptedShaSum # shasum
        THEN [b |-> EmptyBytes, err |-> CheckSumError("sha256", chunk.DecryptedShaSum, shasum),
              steps |-> <<"sha256">>]
        ELSE [b |-> b, err |-> NoError, steps |-> <<"sha256">>]

\* decodeChunk without the early returns: every stage runs on whatever it gets
decodeChunkUngated(chunk, b) ==
    LET d == DecryptStage(chunk, b)
        u == UncompressStage(chunk, IF d.err # NoError THEN b ELSE d.b)
        s == ShaStage(chunk, IF u.err # NoError THEN b ELSE u.b)
    IN  [b |-> s.b,
         err |-> IF d.err # NoError THEN d.err ELSE IF u.err # NoError THEN u.err ELSE s.err,
         steps |-> d.steps \o u.steps \o s.steps]

\* decodeChunk wrapping the error of Decrypt into an error of its own
decodeChunkWrapping(chunk, b) ==
    LET d == DecryptStage(chunk, b)
    IN  IF d.err # NoError
        THEN [b |-> EmptyBytes, err |-> [d.err EXCEPT !.msg = "could not decrypt chunk"],
              steps |-> d.steps]
        ELSE LET u == UncompressStage(chunk, d.b)
             IN  IF u.err # NoError
                 THEN [b |-> EmptyBytes, err |-> u.err, steps |-> d.steps \o u.steps]
                 ELSE LET s == ShaStage(chunk, u.b)
                      IN  [b |-> s.b, err |-> s.err, steps |-> d.steps \o u.steps \o s.steps]

decodeChunk(chunk, b) ==
    LET d == DecryptStage(chunk, b)
    IN  IF d.err # NoError
        THEN [b |-> EmptyBytes, err |-> d.err, steps |-> d.steps]
        ELSE LET u == UncompressStage(chunk, d.b)
             IN  IF u.err # NoError
                 THEN [b |-> EmptyBytes, err |-> u.err, steps |-> d.steps \o u.steps]
                 ELSE LET s == ShaStage(chunk, u.b)
                      IN  [b |-> s.b, err |-> s.err, steps |-> d.steps \o u.steps \o s.steps]

(***************************************************************************)
(* Chunks and the backend.                                                 *)
(*                                                                         *)
(* A response of the backend to one loadChunk invocation: shards[i] is the *)
(* length of the bytes Backend.LoadChunk(chunk, i) returns, 0 when it      *)
(* returns an error; blob is the content the returned bytes carry (in the  *)
(* Reed-Solomon path: the content a successful join of them yields).       *)
(***************************************************************************)
Chunk(num, dataParts, parityParts, size, decryptedShaSum, shaSum, encrypted, compressed) ==
    [Num |-> num, DataParts |-> dataParts, ParityParts |-> parityParts, Size |-> size,
     DecryptedShaSum |-> decryptedShaSum, ShaSum |-> shaSum,
     Encrypted |-> encrypted, Compressed |-> compressed]

TotalParts(chunk) == chunk.DataParts + chunk.ParityParts

Responses(chunk, blobs) ==
    IF chunk.ParityParts > 0
    THEN [blob : blobs, shards : [0..(TotalParts(chunk) - 1) -> 0..MaxShardLen]]
    ELSE [blob : blobs, shards : [{0} -> 0..1]]

\* Backend.LoadChunk(chunk, i) returned an error
FetchFailed(resp, i) == resp.shards[i] = 0

(***************************************************************************)
(* klauspost/reedsolomon, as far as loadChunk can observe it.  pars maps   *)
(* each shard index to the length of that shard, 0 for a nil shard.        *)
(***************************************************************************)
Present(pars) == {i \in DOMAIN pars : pars[i] # 0}

\* checkShards(shards, nilok = true) and the count of present shards
ReconstructOk(pars, dataParts) ==
    /\ Present(pars) # {}
    /\ \A i, j \in Present(pars) : pars[i] = pars[j]
    /\ Cardinality(Present(pars)) >= dataParts

\* enc.Reconstruct(pars) fills every nil shard, data or parity, in place
Reconstruct(pars) ==
    LET shardSize == pars[CHOOSE i \in Present(pars) : TRUE]
    IN  [i \in DOMAIN pars |-> shardSize]

\* enc.Join(w, pars, outSize): walks the data shards, adding up their lengths,
\* until outSize bytes are covered; "ok", or the error met
RECURSIVE JoinWalk(_, _, _, _, _)
JoinWalk(pars, dataParts, outSize, j, size) ==
    IF j >= dataParts THEN (IF size < outSize THEN "ErrShortData" ELSE "ok")
    ELSE IF pars[j] = 0 THEN "ErrReconstructRequired"
    ELSE IF size + pars[j] >= outSize THEN "ok"
    ELSE JoinWalk(pars, dataParts, outSize, j + 1, size + pars[j])

Join(pars, dataParts, outSize) == JoinWalk(pars, dataParts, outSize, 0, 0)

(***************************************************************************)
(* loadChunk                                                               *)
(***************************************************************************)
\* uint subtraction DataParts - parsFound.  A Go uint is 64 bits wide; the
\* result is kept as the two's-complement representative of its residue
\* modulo 2^64: a negative number stands for that number plus 2^64.
UintSub(a, b) == a - b

EnoughPartsStrict(parsFound, chunk) == parsFound > chunk.DataParts

\* line 134
EnoughParts(parsFound, chunk) == parsFound >= chunk.DataParts

\* line 139
NeedReconstruct(parsMissing) == parsMissing > 0

LoopStart(chunk) ==
    [pars |-> [i \in 0..(TotalParts(chunk) - 1) |-> 0], parsFound |-> 0, parsMissing |-> 0,
     calls |-> <<>>, reconstructs |-> <<>>, joins |-> <<>>, joined |-> FALSE]

\* the body of the loop for index i from the point where parsFound was counted
TryJoin(chunk, st, i) ==
    IF NeedReconstruct(st.parsMissing)
    THEN LET st1 == [st EXCEPT !.reconstructs = Append(@, i)]
         IN  IF ~ReconstructOk(st.pars, chunk.DataParts)
             THEN st1
             ELSE LET st2 == [st1 EXCEPT !.pars = Reconstruct(st.pars), !.joins = Append(@, i)]
                  IN  IF Join(st2.pars, chunk.DataParts, chunk.Size) # "ok"
                      THEN st2
                      ELSE [st2 EXCEPT !.joined = TRUE]
    ELSE LET st2 == [st EXCEPT !.joins = Append(@, i)]
         IN  IF Join(st2.pars, chunk.DataParts, chunk.Size) # "ok"
             THEN st2
             ELSE [st2 EXCEPT !.joined = TRUE]

\* the loop giving the chunk up at the first shard that cannot be fetched
RECURSIVE ShardLoopAbortOnFailure(_, _, _, _)
ShardLoopAbortOnFailure(chunk, resp, i, st) ==
    IF i >= TotalParts(chunk) THEN st
    ELSE LET st0 == [st EXCEPT !.calls = Append(@, i)]
         IN  IF FetchFailed(resp, i)
             THEN [st0 EXCEPT !.pars[i] = 0, !.parsMissing = @ + 1]
             ELSE LET st1 == [st0 EXCEPT !.pars[i] = resp.shards[i], !.parsFound = @ + 1]
                  IN  IF EnoughParts(st1.parsFound, chunk)
                      THEN LET st2 == TryJoin(chunk, st1, i)
                           IN  IF st2.joined THEN st2
                               ELSE ShardLoopAbortOnFailure(chunk, resp, i + 1, st2)
                      ELSE ShardLoopAbortOnFailure(chunk, resp, i + 1, st1)

RECURSIVE ShardLoop(_, _, _, _)
ShardLoop(chunk, resp, i, st) ==
    IF i >= TotalParts(chunk) THEN st
    ELSE LET st0 == [st EXCEPT !.calls = Append(@, i)]
         IN  IF FetchFailed(resp, i)
             THEN ShardLoop(chunk, resp, i + 1,
                            [st0 EXCEPT !.pars[i] = 0, !.parsMissing = @ + 1])
             ELSE LET st1 == [st0 EXCEPT !.pars[i] = resp.shards[i], !.parsFound = @ + 1]
                  IN  IF EnoughParts(st1.parsFound, chunk)
                      THEN LET st2 == TryJoin(chunk, st1, i)
                           IN  IF st2.joined THEN st2
                               ELSE ShardLoop(chunk, resp, i + 1, st2)
                      ELSE ShardLoop(chunk, resp, i + 1, st1)

\* The result of loadChunk with what it did on the way: the shard indices it
\* asked the backend for (calls), the indices at which it invoked Reconstruct
\* and Join, whether decodeChunk was reached and the operations decodeChunk
\* applied (steps).
loadChunk(chunk, resp) ==
    IF chunk.ParityParts > 0
    THEN LET st == ShardLoop(chunk, resp, 0, LoopStart(chunk))
         IN  IF st.joined
             THEN LET d == decodeChunk(chunk, resp.blob)
                  IN  [b |-> d.b, err |-> d.err, calls |-> st.calls,
                       reconstructs |-> st.reconstructs, joins |-> st.joins,
                       decoded |-> TRUE, steps |-> d.steps]
             ELSE [b |-> EmptyBytes,
                   err |-> DataReconstructionError(st.parsFound,
                                                   UintSub(chunk.DataParts, st.parsFound)),
                   calls |-> st.calls, reconstructs |-> st.reconstructs, joins |-> st.joins,
                   decoded |-> FALSE, steps |-> <<>>]
    ELSE IF FetchFailed(resp, 0)
         THEN [b |-> EmptyBytes, err |-> BackendError, calls |-> <<0>>,
               reconstructs |-> <<>>, joins |-> <<>>, decoded |-> FALSE, steps |-> <<>>]
         ELSE LET d == decodeChunk(chunk, resp.blob)
              IN  [b |-> d.b, err |-> d.err, calls |-> <<0>>,
                   reconstructs |-> <<>>, joins |-> <<>>, decoded |-> TRUE, steps |-> d.steps]

(***************************************************************************)
(* Specification SpecLoad: loadChunk applied to a chunk descriptor and a   *)
(* backend response drawn from the bounded sets.                           *)
(***************************************************************************)
\* the plaintext the descriptors of SpecLoad announce, and the contents the
\* backend may return for them
LoadPlain == <<1, 2>>

LoadBlobs == [key : Keys, gz : BOOLEAN, data : {LoadPlain, <<1>>}]

LoadChunks ==
    {Chunk(0, n, m, size, Sha256Hex(PlainBlob(LoadPlain)), 0, e, c) :
        n \in 1..MaxDataParts, m \in 0..MaxParityParts, size \in 1..MaxSize,
        e \in {EncryptionNone, EncryptionAES}, c \in {CompressionNone, CompressionGZip}}

\* before the call: the arguments are chosen, nothing has been done
NoResult ==
    [b |-> EmptyBytes, err |-> NoError, calls |-> <<>>, reconstructs |-> <<>>, joins |-> <<>>,
     decoded |-> FALSE, steps |-> <<>>]

LoadArgs(chunk, resp) == [called |-> FALSE, chunk |-> chunk, resp |-> resp, res |-> NoResult]

LoadChunkCall ==
    /\ ~lc.called
    /\ lc' = [lc EXCEPT !.called = TRUE, !.res = loadChunk(lc.chunk, lc.resp)]
    /\ UNCHANGED restoreVars
    /\ UNCHANGED readVars

(***************************************************************************)
(* Archives and snapshots of the restore and read paths.                   *)
(***************************************************************************)
Directory == "Directory"
SymLink == "SymLink"
File == "File"

\* the ciphertext the encoder stores for a plaintext: gzip, then AES under Password
StoredBlob(data) == [key |-> Password, gz |-> TRUE, data |-> data]

\* the descriptor of a stored chunk with logical index num and the given plaintext
StoredChunk(num, data) ==
    Chunk(num, 1, 1, MaxShardLen, Sha256Hex(PlainBlob(data)), Sha256Hex(StoredBlob(data)),
          EncryptionAES, CompressionGZip)

\* the plaintext a descriptor announces
PlainOf(chunk) == CHOOSE d \in Plain : Sha256Hex(PlainBlob(d)) = chunk.DecryptedShaSum

\* what the backend may hold for a chunk: the stored bytes, bytes sealed under
\* another password, bytes that are no gzip frame, bytes with other content
BackendBlobs(chunk) ==
    LET data == PlainOf(chunk)
        other == IF data = <<1>> THEN <<>> ELSE <<1>>
    IN  {StoredBlob(data), [StoredBlob(data) EXCEPT !.key = "wrong"],
         [StoredBlob(data) EXCEPT !.gz = FALSE], StoredBlob(other)}

\* the (plaintext, error) pairs loadChunk can return for a chunk, over all
\* responses of the backend
LoadOutcome(chunk, resp) ==
    LET r == loadChunk(chunk, resp)
    IN  [b |-> r.b.data, err |-> r.err, wrongKey |-> r.decoded /\ resp.blob.key # Password]

LoadOutcomes(chunk) == {LoadOutcome(chunk, resp) : resp \in Responses(chunk, BackendBlobs(chunk))}

\* the plaintext of the chunk with logical index num
PlainOfNum(num) == IF num % 2 = 0 THEN <<1>> ELSE <<2, 1>>

\* storage orders of n chunks, as the logical index at each position: in
\* logical order, in reverse order, and with the last logical index replaced
\* by n (logical index n - 1 is missing)
Sorted(n) == [k \in 1..n |-> k - 1]

Reversed(n) == [k \in 1..n |-> n - k]

Gapped(n) == [k \in 1..n |-> IF k = n THEN n ELSE k - 1]

Layouts == UNION {{Sorted(n), Reversed(n), Gapped(n)} : n \in 0..MaxChunks}

RestoreChunks == {StoredChunk(num, PlainOfNum(num)) : num \in 0..MaxChunks}

RestoreOutcomes == [c \in RestoreChunks |-> LoadOutcomes(c)]

RestoreShaSums == {c.ShaSum : c \in RestoreChunks}

RECURSIVE SeqsOf(_, _)
SeqsOf(S, n) ==
    IF n = 0 THEN {<<>>}
    ELSE LET shorter == SeqsOf(S, n - 1)
         IN  shorter \cup {Append(s, x) : s \in {t \in shorter : Len(t) = n - 1}, x \in S}

RECURSIVE SumLen(_)
SumLen(chunks) == IF chunks = <<>> THEN 0 ELSE Len(PlainOf(Head(chunks))) + SumLen(Tail(chunks))

Archive(type, chunks) ==
    [Type |-> type, Chunks |-> chunks, Size |-> SumLen(chunks),
     StorageSize |-> Len(chunks) * MaxShardLen]

RestoreArchives ==
    {Archive(Directory, <<>>), Archive(SymLink, <<>>)}
    \cup {Archive(File, [k \in DOMAIN nums |-> StoredChunk(nums[k], PlainOfNum(nums[k]))]) :
             nums \in Layouts}

Snapshots == SeqsOf(RestoreArchives, MaxArchives) \ {<<>>}

\* arc.IndexOfChunk(chunkNum): the first position whose chunk has that logical
\* index (1-based here), or ChunkError
IndexOfChunk(arc, chunkNum) ==
    LET found == {k \in 1..Len(arc.Chunks) : arc.Chunks[k].Num = chunkNum}
    IN  IF found = {} THEN [idx |-> 0, err |-> ChunkError(chunkNum)]
        ELSE [idx |-> CHOOSE k \in found : \A h \in found : k <= h, err |-> NoError]

\* lines 202-207 without the lookup: the chunk at storage position i
ChunkAtPosition(arc, i) ==
    IF i + 1 > Len(arc.Chunks) THEN [chunk |-> StoredChunk(0, <<>>), err |-> ChunkError(i)]
    ELSE [chunk |-> arc.Chunks[i + 1], err |-> NoError]

\* lines 202-207: the chunk with logical index i
ChunkNumbered(arc, i) ==
    LET r == IndexOfChunk(arc, i)
    IN  IF r.err # NoError THEN [chunk |-> StoredChunk(0, <<>>), err |-> r.err]
        ELSE [chunk |-> arc.Chunks[r.idx], err |-> NoError]

(***************************************************************************)
(* Progress records                                                        *)
(***************************************************************************)
newProgress(arcIndex) ==
    [Arc |-> arcIndex, Dirs |-> 0, SymLinks |-> 0, Files |-> 0, Size |-> 0, StorageSize |-> 0,
     Transferred |-> 0, ItemTransferred |-> 0, Error |-> NoError]

newProgressError(err) == [newProgress(0) EXCEPT !.Error = err]

(***************************************************************************)
(* The file system and the file handle                                     *)
(***************************************************************************)
FsError(op) == [kind |-> "fs", msg |-> op, x |-> 0, y |-> 0]

\* a path: what is there, the bytes of a regular file, whether the
\* modification time and the owner are those of the archive
NoPath == [kind |-> "absent", content |-> <<>>, mtime |-> "other", owner |-> "other"]

OldByte == 0

\* the regular files that may be at the target path before the restore
PriorFiles ==
    {[kind |-> "file", content |-> [k \in 1..n |-> OldByte], mtime |-> "other", owner |-> "other"] :
        n \in {0, MaxPriorLen}}

NoBuf == [num |-> 0, b |-> <<>>, wrongKey |-> FALSE]

NoHandle == [state |-> "none", offset |-> 0, ops |-> <<>>]

\* f.Write(b) at the offset of the handle: the bytes replace what is there
WriteAt(content, offset, b) ==
    SubSeq(content, 1, offset) \o b \o SubSeq(content, offset + Len(b) + 1, Len(content))

\* os.OpenFile(path, flags, mode) on a path holding prior: the content the file
\* has once it is open
OpenContentTruncating(prior) == <<>>

\* line 196: O_CREATE|O_WRONLY creates a missing file and leaves an existing one as it is
OpenContent(prior) == IF prior.kind = "file" THEN prior.content ELSE <<>>

(***************************************************************************)
(* DecodeSnapshot and DecodeArchive                                        *)
(***************************************************************************)
arc == snapshot[ai]

\* DecodeArchive returns err to the loop of DecodeSnapshot (lines 73-78)
Return(err, handle) ==
    /\ returns' = Append(returns, [arc |-> ai, err |-> err, handle |-> handle.state,
                                   ops |-> handle.ops, written |-> written])
    /\ IF err # NoError
       THEN pc' = "send_error" /\ ai' = ai
       ELSE IF ai < Len(snapshot)
            THEN pc' = "archive" /\ ai' = ai + 1
            ELSE pc' = "close" /\ ai' = ai

\* lines 167-186: newProgress, the dispatch on arc.Type up to the first send.
\* The results of os.MkdirAll and os.Symlink are ignored.
StartArchive ==
    /\ pc = "archive"
    /\ LET p0 == newProgress(ai)
       IN  \/ /\ arc.Type = Directory
              /\ \E made \in BOOLEAN :
                   fs' = IF made THEN [fs EXCEPT ![ai].kind = "dir"] ELSE fs
              /\ p' = [p0 EXCEPT !.Dirs = @ + 1]
           \/ /\ arc.Type = SymLink
              /\ \E made \in BOOLEAN :
                   fs' = IF made THEN [fs EXCEPT ![ai].kind = "symlink"] ELSE fs
              /\ p' = [p0 EXCEPT !.SymLinks = @ + 1]
           \/ /\ arc.Type = File
              /\ fs' = fs
              /\ p' = [p0 EXCEPT !.Files = @ + 1, !.Size = arc.Size,
                                 !.StorageSize = arc.StorageSize]
    /\ pc' = "send_first"
    /\ ci' = 0
    /\ buf' = NoBuf
    /\ written' = <<>>
    /\ UNCHANGED readVars
    /\ UNCHANGED <<lc, snapshot, ai, fh, returns, stream, closed>>

\* lines 173, 178, 186: progress <- p
SendFirst ==
    /\ pc = "send_first"
    /\ stream' = Append(stream, p)
    /\ pc' = IF arc.Type = File THEN "open" ELSE "lchown"
    /\ UNCHANGED readVars
    /\ UNCHANGED <<lc, snapshot, ai, p, ci, buf, fs, fh, written, returns, closed>>

\* lines 190-199: os.MkdirAll of the parent and os.OpenFile
OpenFile ==
    /\ pc = "open"
    /\ \/ /\ \E op \in {"mkdir", "open"} : Return(FsError(op), fh[ai])
          /\ UNCHANGED <<fs, fh>>
       \/ /\ \E prior \in PriorFiles \cup {NoPath} :
               fs' = [fs EXCEPT ![ai] = [prior EXCEPT !.kind = "file",
                                                      !.content = OpenContent(prior)]]
          /\ fh' = [fh EXCEPT ![ai] = [state |-> "open", offset |-> 0, ops |-> <<"open">>]]
          /\ pc' = "chunk"
          /\ UNCHANGED <<ai, returns>>
    /\ UNCHANGED readVars
    /\ UNCHANGED <<lc, snapshot, p, ci, buf, written, stream, closed>>

\* lines 201-211: the loop test, IndexOfChunk and loadChunk, which is called
\* directly: the cache and the mutex are not touched
LoadStep ==
    /\ pc = "chunk"
    /\ ci < Len(arc.Chunks)
    /\ LET r == ChunkNumbered(arc, ci)
       IN  IF r.err # NoError
           THEN Return(r.err, fh[ai]) /\ buf' = buf /\ loads' = loads
           ELSE /\ loads' = [loads EXCEPT ![r.chunk.ShaSum] = @ + 1]
                /\ \E out \in RestoreOutcomes[r.chunk] :
                     IF out.err # NoError
                     THEN Return(out.err, fh[ai]) /\ buf' = [buf EXCEPT !.wrongKey = out.wrongKey]
                     ELSE /\ buf' = [num |-> r.chunk.Num, b |-> out.b, wrongKey |-> out.wrongKey]
                          /\ pc' = "write"
                          /\ UNCHANGED <<ai, returns>>
    /\ UNCHANGED <<rarc, tk, mutex, cache, hits, crashed>>
    /\ UNCHANGED <<lc, snapshot, p, ci, fs, fh, written, stream, closed>>

\* lines 213-219 without line 219: CurrentItemStats.Transferred is not counted
WriteStepTotalOnly ==
    /\ pc = "write"
    /\ \/ /\ \E n \in 0..(IF buf.b = <<>> THEN 0 ELSE Len(buf.b) - 1) :
               /\ fs' = [fs EXCEPT ![ai].content = WriteAt(@, fh[ai].offset, SubSeq(buf.b, 1, n))]
               /\ fh' = [fh EXCEPT ![ai].offset = @ + n, ![ai].ops = Append(@, "write")]
          /\ Return(FsError("write"), fh'[ai])
          /\ UNCHANGED <<p, written>>
       \/ /\ fs' = [fs EXCEPT ![ai].content = WriteAt(@, fh[ai].offset, buf.b)]
          /\ fh' = [fh EXCEPT ![ai].offset = @ + Len(buf.b), ![ai].ops = Append(@, "write")]
          /\ written' = Append(written, buf.num)
          /\ p' = [p EXCEPT !.Transferred = @ + Len(buf.b)]
          /\ pc' = "send_chunk"
          /\ UNCHANGED <<ai, returns>>
    /\ UNCHANGED readVars
    /\ UNCHANGED <<lc, snapshot, ci, buf, stream, closed>>

\* lines 213-219: f.Write(b) and the statistics.  A failing write leaves a
\* proper prefix of b in the file.
WriteStep ==
    /\ pc = "write"
    /\ \/ /\ \E n \in 0..(IF buf.b = <<>> THEN 0 ELSE Len(buf.b) - 1) :
               /\ fs' = [fs EXCEPT ![ai].content = WriteAt(@, fh[ai].offset, SubSeq(buf.b, 1, n))]
               /\ fh' = [fh EXCEPT ![ai].offset = @ + n, ![ai].ops = Append(@, "write")]
          /\ Return(FsError("write"), fh'[ai])
          /\ UNCHANGED <<p, written>>
       \/ /\ fs' = [fs EXCEPT ![ai].content = WriteAt(@, fh[ai].offset, buf.b)]
          /\ fh' = [fh EXCEPT ![ai].offset = @ + Len(buf.b), ![ai].ops = Append(@, "write")]
          /\ written' = Append(written, buf.num)
          /\ p' = [p EXCEPT !.Transferred = @ + Len(buf.b), !.ItemTransferred = @ + Len(buf.b)]
          /\ pc' = "send_chunk"
          /\ UNCHANGED <<ai, returns>>
    /\ UNCHANGED readVars
    /\ UNCHANGED <<lc, snapshot, ci, buf, stream, closed>>

\* line 220 and the increment of i
SendChunk ==
    /\ pc = "send_chunk"
    /\ stream' = Append(stream, p)
    /\ ci' = ci + 1
    /\ pc' = "chunk"
    /\ UNCHANGED readVars
    /\ UNCHANGED <<lc, snapshot, ai, p, buf, fs, fh, written, returns, closed>>

\* lines 224-231: f.Sync(), f.Close() and os.Chtimes
SyncClose ==
    /\ pc = "chunk"
    /\ ci >= Len(arc.Chunks)
    /\ fh' = [fh EXCEPT ![ai].state = "closed", ![ai].ops = @ \o <<"sync", "close">>]
    /\ \/ /\ fs' = [fs EXCEPT ![ai].mtime = "archive"]
          /\ pc' = "lchown"
          /\ UNCHANGED <<ai, returns>>
       \/ /\ fs' = fs
          /\ Return(FsError("chtimes"), fh'[ai])
    /\ UNCHANGED readVars
    /\ UNCHANGED <<lc, snapshot, p, ci, buf, written, stream, closed>>

\* line 235: os.Lchown, whose result DecodeArchive returns
Lchown ==
    /\ pc = "lchown"
    /\ \/ /\ fs[ai].kind # "absent"
          /\ fs' = [fs EXCEPT ![ai].owner = "archive"]
          /\ Return(NoError, fh[ai])
       \/ /\ fs' = fs
          /\ Return(FsError("lchown"), fh[ai])
    /\ UNCHANGED readVars
    /\ UNCHANGED <<lc, snapshot, p, ci, buf, fh, written, stream, closed>>

\* lines 75-77 without the break: the loop goes on with the next archive
SendErrorNoBreak ==
    /\ pc = "send_error"
    /\ stream' = Append(stream, newProgressError(returns[Len(returns)].err))
    /\ IF ai < Len(snapshot)
       THEN pc' = "archive" /\ ai' = ai + 1
       ELSE pc' = "close" /\ ai' = ai
    /\ UNCHANGED readVars
    /\ UNCHANGED <<lc, snapshot, p, ci, buf, fs, fh, written, returns, closed>>

\* lines 75-77 with a return in the place of the break: close(prog) is skipped
SendErrorReturn ==
    /\ pc = "send_error"
    /\ stream' = Append(stream, newProgressError(returns[Len(returns)].err))
    /\ pc' = "done"
    /\ UNCHANGED readVars
    /\ UNCHANGED <<lc, snapshot, ai, p, ci, buf, fs, fh, written, returns, closed>>

\* lines 75-77: the error record, then break
SendError ==
    /\ pc = "send_error"
    /\ stream' = Append(stream, newProgressError(returns[Len(returns)].err))
    /\ pc' = "close"
    /\ UNCHANGED readVars
    /\ UNCHANGED <<lc, snapshot, ai, p, ci, buf, fs, fh, written, returns, closed>>

\* line 80: close(prog)
CloseStream ==
    /\ pc = "close"
    /\ closed' = closed + 1
    /\ pc' = "done"
    /\ UNCHANGED readVars
    /\ UNCHANGED <<lc, snapshot, ai, p, ci, buf, fs, fh, written, returns, stream>>

(***************************************************************************)
(* The cache-backed read path: DecodeArchiveData, readArchiveChunk,        *)
(* ReadArchive and its prefetch goroutine.                                 *)
(*                                                                         *)
(* Tasks 1..NumReaders are calls of ReadArchive or DecodeArchiveData; task *)
(* r + NumReaders is the goroutine the ReadArchive of task r starts.       *)
(***************************************************************************)
Readers == 1..NumReaders

Prefetcher(r) == r + NumReaders

Tasks == 1..(2 * NumReaders)

\* the archives of the read path: the chunks as in the restore path, or with
\* an empty plaintext for the chunk of the last logical index
ReadPlain(nums, k, hollow) ==
    IF hollow /\ nums[k] = Len(nums) - 1 THEN <<>> ELSE PlainOfNum(nums[k])

ReadArchives ==
    {Archive(Directory, <<>>)}
    \cup {Archive(File, [k \in DOMAIN nums |-> StoredChunk(nums[k], ReadPlain(nums, k, hollow))]) :
             nums \in Layouts, hollow \in BOOLEAN}

ReadChunks == UNION {{a.Chunks[k] : k \in 1..Len(a.Chunks)} : a \in ReadArchives}

ReadOutcomes == [c \in ReadChunks |-> LoadOutcomes(c)]

ReadShaSums == {c.ShaSum : c \in ReadChunks}

\* arc.ChunkForOffset(offset): the logical index of the chunk holding the
\* offset and the offset inside that chunk, ChunkError for a missing logical
\* index on the way, SeekError past the end
RECURSIVE ChunkForOffsetFrom(_, _, _, _)
ChunkForOffsetFrom(a, offset, i, size) ==
    IF i >= Len(a.Chunks) THEN [num |-> 0, internalOffset |-> 0, err |-> SeekError(offset)]
    ELSE LET r == IndexOfChunk(a, i)
         IN  IF r.err # NoError THEN [num |-> 0, internalOffset |-> 0, err |-> ChunkError(i)]
             ELSE LET chunk == a.Chunks[r.idx]
                      originalSize == Len(PlainOf(chunk))
                  IN  IF size + originalSize > offset
                      THEN [num |-> chunk.Num, internalOffset |-> offset - size, err |-> NoError]
                      ELSE ChunkForOffsetFrom(a, offset, i + 1, size + originalSize)

ChunkForOffset(a, offset) == ChunkForOffsetFrom(a, offset, 0, 0)

NoEntry == [ok |-> FALSE, b |-> <<>>]

NoTask ==
    [op |-> "none", pc |-> "idle", offset |-> 0, size |-> 0, b |-> <<>>, part |-> 0, ioff |-> 0,
     cd |-> <<>>, err |-> NoError, outcome |-> "none", loadErr |-> NoError]

\* the chunk a task is at: resolved by IndexOfChunk before the lock
TaskChunk(t) == rarc.Chunks[IndexOfChunk(rarc, tk[t].part).idx]

\* the function returns to its caller (for the goroutine: it ends)
Returned(task, b, err) == [task EXCEPT !.pc = "done", !.outcome = "returned", !.b = b, !.err = err]

\* panic(err), lines 332 and 338
Panicked(task, err) == [task EXCEPT !.pc = "done", !.outcome = "panicked", !.b = <<>>, !.err = err]

\* lines 315-323: the entry of ReadArchive up to the loop
StartReadArchive(r) ==
    /\ ~crashed
    /\ tk[r].pc = "idle"
    /\ LET t0 == [tk[r] EXCEPT !.op = "ReadArchive", !.outcome = "running"]
       IN  IF rarc.Type # File
           THEN tk' = [tk EXCEPT ![r] = Returned(t0, <<>>, NoError)]
           ELSE LET c == ChunkForOffset(rarc, t0.offset)
                IN  IF c.err # NoError
                    THEN tk' = [tk EXCEPT ![r] = Returned(t0, <<>>, c.err)]
                    ELSE tk' = [tk EXCEPT ![r] = [t0 EXCEPT !.pc = "loop", !.part = c.num,
                                                            !.ioff = c.internalOffset]]
    /\ UNCHANGED <<rarc, mutex, cache, loads, hits, crashed>>
    /\ UNCHANGED loadVars
    /\ UNCHANGED restoreVars

\* lines 325-329 and 350-356: the loop test, the end-of-file return, the call
\* of readArchiveChunk up to IndexOfChunk; after the loop the goroutine is
\* started and b is returned
ReadLoop(r) ==
    /\ ~crashed
    /\ tk[r].pc = "loop"
    /\ IF Len(tk[r].b) < tk[r].size
       THEN IF tk[r].part >= Len(rarc.Chunks)
            THEN tk' = [tk EXCEPT ![r] = Returned(@, @.b, NoError)] /\ crashed' = crashed
            ELSE IF IndexOfChunk(rarc, tk[r].part).err # NoError
                 THEN /\ tk' = [tk EXCEPT ![r] = Panicked(@, IndexOfChunk(rarc, tk[r].part).err)]
                      /\ crashed' = TRUE
                 ELSE tk' = [tk EXCEPT ![r].pc = "lock"] /\ crashed' = crashed
       ELSE /\ tk' = [tk EXCEPT ![r] = Returned(@, @.b, NoError),
                                ![Prefetcher(r)] = [tk[Prefetcher(r)] EXCEPT !.op = "prefetch",
                                                                  !.pc = "spawned",
                                                                  !.part = tk[r].part,
                                                                  !.outcome = "running"]]
            /\ crashed' = crashed
    /\ UNCHANGED <<rarc, mutex, cache, loads, hits>>
    /\ UNCHANGED loadVars
    /\ UNCHANGED restoreVars

\* lines 351-353 and 292-295: the goroutine calls readArchiveChunk
StartPrefetch(t) ==
    /\ ~crashed
    /\ tk[t].pc = "spawned"
    /\ IF IndexOfChunk(rarc, tk[t].part).err # NoError
       THEN tk' = [tk EXCEPT ![t] = Returned(@, <<>>, IndexOfChunk(rarc, tk[t].part).err)]
       ELSE tk' = [tk EXCEPT ![t].pc = "lock"]
    /\ UNCHANGED <<rarc, mutex, cache, loads, hits, crashed>>
    /\ UNCHANGED loadVars
    /\ UNCHANGED restoreVars

\* lines 249-253: the entry of DecodeArchiveData
StartDecodeArchiveData(r) ==
    /\ ~crashed
    /\ tk[r].pc = "idle"
    /\ LET t0 == [tk[r] EXCEPT !.op = "DecodeArchiveData", !.outcome = "running"]
       IN  IF rarc.Type # File
           THEN tk' = [tk EXCEPT ![r] = Returned(t0, <<>>, NoError)]
           ELSE tk' = [tk EXCEPT ![r] = [t0 EXCEPT !.pc = "data_loop"]]
    /\ UNCHANGED <<rarc, mutex, cache, loads, hits, crashed>>
    /\ UNCHANGED loadVars
    /\ UNCHANGED restoreVars

\* lines 256-262 and 279-285: the loop test and IndexOfChunk
DataLoop(r) ==
    /\ ~crashed
    /\ tk[r].pc = "data_loop"
    /\ IF tk[r].part < Len(rarc.Chunks)
       THEN IF IndexOfChunk(rarc, tk[r].part).err # NoError
            THEN tk' = [tk EXCEPT ![r] = Returned(@, @.b, IndexOfChunk(rarc, tk[r].part).err)]
            ELSE tk' = [tk EXCEPT ![r].pc = "lock"]
       ELSE tk' = [tk EXCEPT ![r] = Returned(@, @.b, NoError)]
    /\ UNCHANGED <<rarc, mutex, cache, loads, hits, crashed>>
    /\ UNCHANGED loadVars
    /\ UNCHANGED restoreVars

\* mutex.Lock() that does not wait
LockWithoutWaiting(t) ==
    /\ ~crashed
    /\ tk[t].pc = "lock"
    /\ mutex' = t
    /\ tk' = [tk EXCEPT ![t].pc = "lookup"]
    /\ UNCHANGED <<rarc, cache, loads, hits, crashed>>
    /\ UNCHANGED loadVars
    /\ UNCHANGED restoreVars

\* lines 263 and 298: mutex.Lock()
Lock(t) ==
    /\ ~crashed
    /\ tk[t].pc = "lock"
    /\ mutex = 0
    /\ mutex' = t
    /\ tk' = [tk EXCEPT ![t].pc = "lookup"]
    /\ UNCHANGED <<rarc, cache, loads, hits, crashed>>
    /\ UNCHANGED loadVars
    /\ UNCHANGED restoreVars

\* lines 264-267 and 299-300: cd, ok := cache[chunk.ShaSum]
Lookup(t) ==
    /\ ~crashed
    /\ tk[t].pc = "lookup"
    /\ LET entry == cache[TaskChunk(t).ShaSum]
       IN  IF entry.ok
           THEN /\ tk' = [tk EXCEPT ![t].pc = "unlock", ![t].cd = entry.b]
                /\ hits' = [hits EXCEPT ![TaskChunk(t).ShaSum] = @ + 1]
           ELSE /\ tk' = [tk EXCEPT ![t].pc = "load"]
                /\ hits' = hits
    /\ UNCHANGED <<rarc, mutex, cache, loads, crashed>>
    /\ UNCHANGED loadVars
    /\ UNCHANGED restoreVars

\* what the caller of readArchiveChunk does with an error: ReadArchive panics
\* (line 332), the goroutine drops it (line 352)
AfterLoadError(task, err) ==
    IF task.op = "ReadArchive" THEN Panicked([task EXCEPT !.loadErr = err], err)
    ELSE IF task.op = "prefetch" THEN Returned([task EXCEPT !.loadErr = err], <<>>, err)
    ELSE Returned([task EXCEPT !.loadErr = err], task.b, err)

\* the same with the assignment to the cache before the test of the error
LoadCachingFailure(t) ==
    /\ ~crashed
    /\ tk[t].pc = "load"
    /\ loads' = [loads EXCEPT ![TaskChunk(t).ShaSum] = @ + 1]
    /\ \E out \in ReadOutcomes[TaskChunk(t)] :
         /\ cache' = [cache EXCEPT ![TaskChunk(t).ShaSum] = [ok |-> TRUE, b |-> out.b]]
         /\ IF out.err # NoError
            THEN /\ tk' = [tk EXCEPT ![t] = AfterLoadError(@, out.err)]
                 /\ crashed' = (tk[t].op = "ReadArchive")
            ELSE /\ tk' = [tk EXCEPT ![t].pc = "unlock", ![t].cd = out.b]
                 /\ crashed' = crashed
    /\ UNCHANGED <<rarc, mutex, hits>>
    /\ UNCHANGED loadVars
    /\ UNCHANGED restoreVars

\* lines 268-272 and 301-305: loadChunk on a miss; its error is returned with
\* the mutex still locked, its bytes go into the cache
Load(t) ==
    /\ ~crashed
    /\ tk[t].pc = "load"
    /\ loads' = [loads EXCEPT ![TaskChunk(t).ShaSum] = @ + 1]
    /\ \E out \in ReadOutcomes[TaskChunk(t)] :
         IF out.err # NoError
         THEN /\ tk' = [tk EXCEPT ![t] = AfterLoadError(@, out.err)]
              /\ crashed' = (tk[t].op = "ReadArchive")
              /\ cache' = cache
         ELSE /\ tk' = [tk EXCEPT ![t].pc = "unlock", ![t].cd = out.b]
              /\ crashed' = crashed
              /\ cache' = [cache EXCEPT ![TaskChunk(t).ShaSum] = [ok |-> TRUE, b |-> out.b]]
    /\ UNCHANGED <<rarc, mutex, hits>>
    /\ UNCHANGED loadVars
    /\ UNCHANGED restoreVars

\* lines 330-347: what ReadArchive does with the chunk readArchiveChunk returned
TakeChunk(task) ==
    LET d == SubSeq(task.cd, task.ioff + 1, Len(task.cd))
        room == task.size - Len(task.b)
    IN  IF Len(task.cd) = 0 \/ Len(d) = 0
        THEN Panicked(task, NoError)
        ELSE [task EXCEPT !.b = @ \o (IF Len(d) + Len(task.b) > task.size
                                      THEN SubSeq(d, 1, room) ELSE d),
                          !.ioff = 0, !.part = @ + 1, !.pc = "loop"]

\* lines 275-276 and 308-311: mutex.Unlock(), the copy of the bytes, and the
\* caller's use of them
Unlock(t) ==
    /\ ~crashed
    /\ tk[t].pc = "unlock"
    /\ mutex' = 0
    /\ tk' = [tk EXCEPT ![t] =
                IF @.op = "ReadArchive" THEN TakeChunk(@)
                ELSE IF @.op = "prefetch" THEN Returned(@, @.cd, NoError)
                ELSE [@ EXCEPT !.b = @ \o tk[t].cd, !.part = @ + 1, !.pc = "data_loop"]]
    /\ crashed' = (tk'[t].outcome = "panicked")
    /\ UNCHANGED <<rarc, cache, loads, hits>>
    /\ UNCHANGED loadVars
    /\ UNCHANGED restoreVars

(***************************************************************************)
(* Specifications                                                          *)
(***************************************************************************)
LoadIdle == lc = LoadArgs(StoredChunk(0, <<1>>), [blob |-> EmptyBytes, shards |-> <<>>])

RestoreIdle ==
    /\ snapshot = <<>>
    /\ ai = 0
    /\ pc = "idle"
    /\ p = newProgress(0)
    /\ ci = 0
    /\ buf = NoBuf
    /\ fs = <<>>
    /\ fh = <<>>
    /\ written = <<>>
    /\ returns = <<>>
    /\ stream = <<>>
    /\ closed = 0

ReadIdle ==
    /\ rarc = Archive(Directory, <<>>)
    /\ tk = <<>>
    /\ mutex = 0
    /\ cache = <<>>
    /\ loads = <<>>
    /\ hits = <<>>
    /\ crashed = FALSE

InitLoad ==
    /\ ReadIdle
    /\ \E chunk \in LoadChunks : \E resp \in Responses(chunk, LoadBlobs) : lc = LoadArgs(chunk, resp)
    /\ RestoreIdle

NextLoad == LoadChunkCall

SpecLoad == InitLoad /\ [][NextLoad]_vars

\* DecodeSnapshot (lines 68-84) of a snapshot of the bounded set, on a
\* destination where nothing is known of the target paths, the cache empty
InitRestore ==
    /\ LoadIdle
    /\ rarc = Archive(Directory, <<>>)
    /\ tk = <<>>
    /\ mutex = 0
    /\ cache = [h \in RestoreShaSums |-> NoEntry]
    /\ loads = [h \in RestoreShaSums |-> 0]
    /\ hits = <<>>
    /\ crashed = FALSE
    /\ snapshot \in Snapshots
    /\ ai = 1
    /\ pc = "archive"
    /\ p = newProgress(0)
    /\ ci = 0
    /\ buf = NoBuf
    /\ fs = [k \in 1..Len(snapshot) |-> NoPath]
    /\ fh = [k \in 1..Len(snapshot) |-> NoHandle]
    /\ written = <<>>
    /\ returns = <<>>
    /\ stream = <<>>
    /\ closed = 0

NextRestore ==
    \/ StartArchive
    \/ SendFirst
    \/ OpenFile
    \/ LoadStep
    \/ WriteStep
    \/ SendChunk
    \/ SyncClose
    \/ Lchown
    \/ SendError
    \/ CloseStream

SpecRestore == InitRestore /\ [][NextRestore]_vars

\* the same where the goroutine of DecodeSnapshot keeps running: the consumer
\* receives every record sent, and every call to the backend and to the file
\* system returns
SpecRestoreFair == InitRestore /\ [][NextRestore]_vars /\ WF_vars(NextRestore)

\* concurrent cache-backed calls on one archive, the cache empty at the start;
\* the calls of ReadArchive are all for the same offset and size
InitRead ==
    /\ LoadIdle
    /\ RestoreIdle
    /\ rarc \in ReadArchives
    /\ \E offset \in 0..MaxOffset, size \in 0..MaxReadSize :
         tk = [t \in Tasks |-> [NoTask EXCEPT !.offset = offset, !.size = size]]
    /\ mutex = 0
    /\ cache = [h \in ReadShaSums |-> NoEntry]
    /\ loads = [h \in ReadShaSums |-> 0]
    /\ hits = [h \in ReadShaSums |-> 0]
    /\ crashed = FALSE

NextRead ==
    \/ \E r \in Readers : StartReadArchive(r)
    \/ \E r \in Readers : ReadLoop(r)
    \/ \E r \in Readers : StartDecodeArchiveData(r)
    \/ \E r \in Readers : DataLoop(r)
    \/ \E t \in Tasks : StartPrefetch(t)
    \/ \E t \in Tasks : Lock(t)
    \/ \E t \in Tasks : Lookup(t)
    \/ \E t \in Tasks : Load(t)
    \/ \E t \in Tasks : Unlock(t)

SpecRead == InitRead /\ [][NextRead]_vars

(***************************************************************************)
(* Properties of loadChunk and decodeChunk (SpecLoad)                      *)
(***************************************************************************)
\* the shard indices for which Backend.LoadChunk succeeds
Fetchable(resp) == {i \in DOMAIN resp.shards : resp.shards[i] # 0}

\* all fetchable shards have one length, and DataParts of them cover chunk.Size
IntactShards(chunk, resp) ==
    \E len \in 1..MaxShardLen :
        /\ \A i \in Fetchable(resp) : resp.shards[i] = len
        /\ chunk.DataParts * len >= chunk.Size

\* C1, as stated: with parity, loadChunk reaches decodeChunk if and only if at
\* least DataParts shards are fetchable, and with k < DataParts fetchable it
\* fails with DataReconstructionError{BlocksFound: k, FailedBackends: DataParts - k}.
C1_AsStated ==
    (lc.called /\ lc.chunk.ParityParts > 0) =>
        LET k == Cardinality(Fetchable(lc.resp))
            n == lc.chunk.DataParts
        IN  /\ lc.res.decoded <=> k >= n
            /\ k < n => lc.res.err = DataReconstructionError(k, n - k)

\* C1, amended: with parity, loadChunk reaches decodeChunk only if at least
\* DataParts shards are fetchable, and it does reach it when at least DataParts
\* are fetchable and the fetchable shards are intact (one common length, enough
\* to cover chunk.Size); with k < DataParts fetchable it fails with
\* DataReconstructionError{BlocksFound: k, FailedBackends: DataParts - k}.
C1_ErasureTolerance ==
    (lc.called /\ lc.chunk.ParityParts > 0) =>
        LET k == Cardinality(Fetchable(lc.resp))
            n == lc.chunk.DataParts
        IN  /\ lc.res.decoded => k >= n
            /\ (k >= n /\ IntactShards(lc.chunk, lc.resp)) => lc.res.decoded
            /\ k < n => /\ ~lc.res.decoded
                        /\ lc.res.err = DataReconstructionError(k, n - k)

\* S4: some but too few shards were fetched, and the error counts them
C1_Witness ==
    /\ lc.called
    /\ lc.chunk.ParityParts > 0
    /\ Cardinality(Fetchable(lc.resp)) = 1
    /\ lc.chunk.DataParts = 2
    /\ lc.res.err = DataReconstructionError(1, 1)

\* S3: a data shard is missing, enough shards are fetchable, decodeChunk is reached
C1_WitnessReconstruct ==
    /\ lc.called
    /\ lc.chunk.ParityParts > 0
    /\ FetchFailed(lc.resp, 0)
    /\ lc.res.decoded

\* the operations decodeChunk applies to a chunk when none of them fails
FullOrder(chunk) ==
    (IF chunk.Encrypted = EncryptionAES THEN <<"decrypt">> ELSE <<>>)
    \o (IF chunk.Compressed = CompressionGZip THEN <<"uncompress">> ELSE <<>>)
    \o <<"sha256">>

IsPrefix(s, t) == Len(s) <= Len(t) /\ s = SubSeq(t, 1, Len(s))

\* the bytes the hash is taken of when decrypt and decompress both succeed
Stripped(chunk, b) ==
    [key |-> IF chunk.Encrypted = EncryptionAES THEN "none" ELSE b.key,
     gz |-> IF chunk.Compressed = CompressionGZip THEN FALSE ELSE b.gz,
     data |-> b.data]

\* C2: decodeChunk applies decrypt (only for AES), decompress (only for GZip)
\* and the SHA-256 check in this order, each only if the one before succeeded;
\* after an AES authentication failure nothing else is applied; non-empty
\* plaintext is returned only when the digest equals chunk.DecryptedShaSum, and
\* a digest mismatch gives CheckSumError{"sha256", expected, found}.
C2_DecodeOrder ==
    (lc.called /\ lc.res.decoded) =>
        LET res == lc.res
            full == FullOrder(lc.chunk)
        IN  /\ res.steps # <<>>
            /\ IsPrefix(res.steps, full)
            /\ res.err = CipherAuthError => res.steps = <<"decrypt">>
            /\ res.err = GzipError => res.steps[Len(res.steps)] = "uncompress"
            /\ res.err.kind \in {"nil", "CheckSumError"} <=> res.steps = full
            /\ res.err = NoError =>
                  /\ Sha256Hex(res.b) = lc.chunk.DecryptedShaSum
                  /\ res.b = Stripped(lc.chunk, lc.resp.blob)
            /\ res.b # EmptyBytes => res.err = NoError
            /\ res.err.kind = "CheckSumError" =>
                  /\ res.err = CheckSumError("sha256", lc.chunk.DecryptedShaSum,
                                             Sha256Hex(Stripped(lc.chunk, lc.resp.blob)))
                  /\ res.err.y # lc.chunk.DecryptedShaSum
            /\ res.err.kind \in {"nil", "CheckSumError", "cipher", "gzip"}

\* an AES+GZip chunk whose bytes fail authentication: only decrypt was applied
C2_Witness ==
    /\ lc.called
    /\ lc.res.decoded
    /\ lc.chunk.Encrypted = EncryptionAES
    /\ lc.chunk.Compressed = CompressionGZip
    /\ lc.res.err = CipherAuthError
    /\ lc.res.steps = <<"decrypt">>

\* S2: an AES+GZip chunk decoded through all three steps
C2_WitnessFull ==
    /\ lc.called
    /\ lc.res.err = NoError
    /\ lc.res.steps = <<"decrypt", "uncompress", "sha256">>
    /\ lc.res.b.data # <<>>

(***************************************************************************)
(* Properties of DecodeSnapshot and DecodeArchive (SpecRestore)            *)
(***************************************************************************)
IsErrorRecord(rec) == rec.Error # NoError

\* C4: archives are decoded in stored order; the first archive whose
\* DecodeArchive fails gives exactly one error record carrying that error, no
\* later archive is decoded and the stream is closed: the stream holds at most
\* one error record and no record follows an error record.
C4_HaltOnFirstError ==
    /\ \A k \in 1..Len(returns) :
          /\ returns[k].arc = k
          /\ returns[k].err # NoError => k = Len(returns)
    /\ \A k \in 1..Len(stream) :
          /\ IsErrorRecord(stream[k]) =>
                /\ k = Len(stream)
                /\ returns # <<>>
                /\ stream[k].Error = returns[Len(returns)].err
          /\ ~IsErrorRecord(stream[k]) => stream[k].Arc \in 1..Len(returns) + 1
          /\ (k > 1 /\ ~IsErrorRecord(stream[k])) => stream[k - 1].Arc <= stream[k].Arc
    /\ pc = "done" =>
          /\ closed = 1
          /\ returns # <<>>
          /\ IF returns[Len(returns)].err # NoError
             THEN /\ stream # <<>>
                  /\ stream[Len(stream)] = newProgressError(returns[Len(returns)].err)
             ELSE /\ Len(returns) = Len(snapshot)
                  /\ \A k \in 1..Len(stream) : ~IsErrorRecord(stream[k])

\* the first of two archives failed: one error record, the second archive untouched
C4_Witness ==
    /\ pc = "done"
    /\ Len(snapshot) = 2
    /\ Len(returns) = 1
    /\ returns[1].err # NoError
    /\ IsErrorRecord(stream[Len(stream)])
    /\ fs[2] = NoPath

\* the chunk of an archive that carries logical index i
ChunkOfIndex(a, i) == CHOOSE c \in {a.Chunks[k] : k \in 1..Len(a.Chunks)} : c.Num = i

HasIndex(a, i) == \E k \in 1..Len(a.Chunks) : a.Chunks[k].Num = i

\* every logical index 0..len-1 is present
Complete(a) == \A i \in 0..(Len(a.Chunks) - 1) : HasIndex(a, i)

RECURSIVE LogicalConcat(_, _)
LogicalConcat(a, n) ==
    IF n = 0 THEN <<>> ELSE LogicalConcat(a, n - 1) \o PlainOf(ChunkOfIndex(a, n - 1))

\* the plaintext of a File archive: its chunks 0..len-1 in logical order
Plaintext(a) == LogicalConcat(a, Len(a.Chunks))

\* the first logical index an incomplete archive lacks
FirstMissing(a) ==
    CHOOSE i \in 0..(Len(a.Chunks) - 1) :
        ~HasIndex(a, i) /\ \A j \in 0..(i - 1) : HasIndex(a, j)

InOrder(w) == \A k \in 1..Len(w) : w[k] = k - 1

\* C5: whatever the storage order of arc.Chunks, DecodeArchive writes the
\* chunks in logical order 0, 1, 2, ...; after a successful DecodeArchive of a
\* File archive the byte at each offset k of the file is byte k of the
\* concatenation of the plaintexts of the chunks 0..len-1; a missing logical
\* index makes DecodeArchive fail, with ChunkError once the file is open and
\* the chunks before it are written, and no later chunk is written.
C5_LogicalOrder ==
    /\ InOrder(written)
    /\ \A k \in 1..Len(returns) :
          LET r == returns[k]
              a == snapshot[r.arc]
          IN  a.Type = File =>
                /\ InOrder(r.written)
                /\ r.err = NoError =>
                      /\ Complete(a)
                      /\ Len(r.written) = Len(a.Chunks)
                      /\ Len(fs[r.arc].content) >= Len(Plaintext(a))
                      /\ \A o \in 1..Len(Plaintext(a)) : fs[r.arc].content[o] = Plaintext(a)[o]
                /\ ~Complete(a) =>
                      /\ r.err # NoError
                      /\ Len(r.written) <= FirstMissing(a)
                      /\ (r.ops # <<>> /\ Len(r.written) = FirstMissing(a)) =>
                            r.err = ChunkError(FirstMissing(a))

\* a file whose two chunks are stored in reverse order was restored
C5_Witness ==
    \E k \in 1..Len(returns) :
        LET a == snapshot[returns[k].arc]
        IN  /\ a.Type = File
            /\ Len(a.Chunks) = 2
            /\ a.Chunks[1].Num = 1
            /\ a.Chunks[2].Num = 0
            /\ returns[k].err = NoError
            /\ returns[k].written = <<0, 1>>

\* an archive lacking logical index 1 failed with ChunkError after chunk 0
C5_WitnessMissing ==
    \E k \in 1..Len(returns) :
        /\ returns[k].err = ChunkError(1)
        /\ returns[k].written = <<0>>

\* C6: after a successful DecodeArchive of a File archive the target file
\* holds exactly the concatenated plaintext of the archive's chunks, whatever
\* was at the target path before.
C6_ExactContent ==
    \A k \in 1..Len(returns) :
        LET r == returns[k]
            a == snapshot[r.arc]
        IN  (a.Type = File /\ r.err = NoError) => fs[r.arc].content = Plaintext(a)

\* C10: the file DecodeArchive opened is closed when DecodeArchive returns, on
\* success and on every error return after the open, and Sync precedes Close.
C10_ClosedOnEveryExit ==
    \A k \in 1..Len(returns) :
        LET r == returns[k]
        IN  r.ops # <<>> =>
              /\ r.handle = "closed"
              /\ \E i \in 1..(Len(r.ops) - 1) : r.ops[i] = "sync" /\ r.ops[i + 1] = "close"

(***************************************************************************)
(* Properties of the cache-backed read path (SpecRead)                     *)
(***************************************************************************)
\* C3: however the cache-backed calls and the prefetch goroutines interleave,
\* a ShaSum whose load succeeded was loaded by exactly one loadChunk
\* invocation; every other lookup of it was answered from the cache.
C3_SingleLoad ==
    \A h \in DOMAIN cache : cache[h].ok => loads[h] = 1

\* two tasks have got the bytes of the same chunk, one of them from the cache
C3_Witness ==
    \E h \in DOMAIN cache : \E t1, t2 \in DOMAIN tk :
        /\ t1 # t2
        /\ loads[h] = 1
        /\ hits[h] >= 1
        /\ tk[t1].outcome = "returned" /\ tk[t1].b # <<>>
        /\ tk[t2].outcome = "returned" /\ tk[t2].b # <<>>

\* no loadChunk invocation of the read path has failed
AllLoadsSucceeded == \A t \in DOMAIN tk : tk[t].loadErr = NoError

Min(a, b) == IF a < b THEN a ELSE b

\* the bytes [offset, min(offset + size, fileSize)) of the file
FileRange(a, offset, size) ==
    SubSeq(Plaintext(a), offset + 1, Min(offset + size, Len(Plaintext(a))))

ReadIsExact(task) ==
    /\ task.outcome = "returned"
    /\ task.err = NoError
    /\ rarc.Type # File => task.b = <<>>
    /\ rarc.Type = File => task.b = FileRange(rarc, task.offset, task.size)

\* a finished ReadArchive of an offset inside a file all of whose loads succeeded
ReadInsideFile(task) ==
    /\ task.op = "ReadArchive"
    /\ task.pc = "done"
    /\ AllLoadsSucceeded
    /\ rarc.Type = File => /\ Complete(rarc)
                           /\ task.offset < Len(Plaintext(rarc))

\* C7: for a File archive whose chunks all load, every offset inside the file
\* and every size, ReadArchive returns normally with exactly the bytes
\* [offset, min(offset + size, fileSize)) of the plaintext; for the other
\* archive types it returns an empty result.
C7_ReadReturnsRange ==
    \A r \in DOMAIN tk : ReadInsideFile(tk[r]) => ReadIsExact(tk[r])

NoEmptyChunk(a) == \A k \in 1..Len(a.Chunks) : PlainOf(a.Chunks[k]) # <<>>

\* the same for the archives none of whose chunks has an empty plaintext
C7_ReadReturnsRangeOfNonEmptyChunks ==
    \A r \in DOMAIN tk : (ReadInsideFile(tk[r]) /\ NoEmptyChunk(rarc)) => ReadIsExact(tk[r])

\* a read across the boundary of two chunks, cut to size
C7_Witness ==
    \E r \in DOMAIN tk :
        /\ ReadInsideFile(tk[r])
        /\ NoEmptyChunk(rarc)
        /\ rarc.Type = File
        /\ tk[r].offset = 0
        /\ tk[r].size = 2
        /\ tk[r].b = <<1, 2>>

\* C8: when a chunk load fails during ReadArchive, ReadArchive returns that
\* error to its caller, with no partial result.
C8_LoadErrorReturned ==
    \A r \in DOMAIN tk :
        (tk[r].op = "ReadArchive" /\ tk[r].loadErr # NoError) =>
            /\ tk[r].outcome = "returned"
            /\ tk[r].err = tk[r].loadErr
            /\ tk[r].b = <<>>

\* C9: the prefetch goroutine does not keep the mutex: once it has ended,
\* also after a failed chunk load, the mutex is not held by it, so the later
\* cache-backed calls can acquire it.
C9_PrefetchReleasesMutex ==
    \A t \in DOMAIN tk :
        (tk[t].op = "prefetch" /\ tk[t].pc = "done") => mutex # t

\* the parts of C9 the code keeps: the goroutine is started only when
\* ReadArchive returns, and its error reaches no caller
C9_PrefetchIsDetached ==
    \A r \in DOMAIN tk :
        (r + NumReaders \in DOMAIN tk /\ tk[r + NumReaders].op = "prefetch") =>
            /\ tk[r].op = "ReadArchive"
            /\ tk[r].outcome = "returned"
            /\ tk[r].err = NoError

(***************************************************************************)
(* Further properties of DecodeSnapshot and DecodeArchive (SpecRestore)    *)
(***************************************************************************)
\* C11: the restore flow loads every chunk through the cache: no ShaSum is
\* loaded from the backend more than once during the restore of a snapshot,
\* and a chunk that loadChunk returned during the restore is in the cache.
C11_RestoreThroughCache ==
    /\ \A h \in DOMAIN loads : loads[h] <= 1
    /\ pc = "write" => cache[ChunkOfIndex(arc, buf.num).ShaSum].ok

\* what the code does instead: the restore never puts anything into the cache
C11_RestoreBypassesCache == \A h \in DOMAIN cache : ~cache[h].ok

\* C12: after DecodeArchive has returned without error, for an archive of any
\* type, the modification time of the target path is archive.ModTime and its
\* owner is (UID, GID).
C12_MetadataRestored ==
    \A k \in 1..Len(returns) :
        returns[k].err = NoError =>
            /\ fs[returns[k].arc].mtime = "archive"
            /\ fs[returns[k].arc].owner = "archive"

\* the part of C12 the code keeps: the owner for every type, the modification
\* time for File archives
C12_OwnerAndFileModTime ==
    \A k \in 1..Len(returns) :
        returns[k].err = NoError =>
            /\ fs[returns[k].arc].owner = "archive"
            /\ snapshot[returns[k].arc].Type = File => fs[returns[k].arc].mtime = "archive"


\* the error string the test of the configuration store expects (part_000, line 51)
AuthFailureMessage == "cipher: message authentication failed"

\* C13: an AES authentication failure is surfaced verbatim.  When the bytes
\* the backend returned for a chunk are sealed under another password than the
\* repository's, DecodeArchive returns the error of Decrypt unchanged, and once
\* the error record is sent it carries that error, whose message is exactly
\* "cipher: message authentication failed"; Decrypt with a wrong password, as
\* the Load of the configuration store applies it, fails with that message.
C13_AuthFailureVerbatim ==
    /\ buf.wrongKey =>
          /\ returns # <<>>
          /\ returns[Len(returns)].err = CipherAuthError
          /\ returns[Len(returns)].err.msg = AuthFailureMessage
          /\ pc \in {"close", "done"} =>
                /\ stream[Len(stream)] = newProgressError(CipherAuthError)
                /\ stream[Len(stream)].Error.msg = AuthFailureMessage
    /\ \A k \in 1..Len(stream) :
          stream[k].Error.kind = "cipher" => stream[k].Error.msg = AuthFailureMessage
    /\ \A d \in Plain : \A password \in Keys \ {Password} :
          Decrypt(StoredBlob(d), password).err.msg = AuthFailureMessage

\* a restore ended on a chunk sealed under another password, the error record sent
C13_Witness ==
    /\ pc = "done"
    /\ buf.wrongKey
    /\ stream[Len(stream)].Error = CipherAuthError
    /\ closed = 1


\* C14: the progress channel is closed exactly once on every path, nothing is
\* sent on it after the close, and when the consumer keeps receiving and every
\* backend and file system call returns, the close eventually happens.
C14_ClosedExactlyOnce ==
    /\ [](closed <= 1)
    /\ [][closed >= 1 => (stream' = stream /\ closed' = closed)]_vars
    /\ <>(closed = 1)

\* the stream was closed after the last of two archives, without an error record
C14_Witness ==
    /\ pc = "done"
    /\ closed = 1
    /\ Len(snapshot) = 2
    /\ Len(returns) = 2
    /\ returns[2].err = NoError
    /\ \A k \in 1..Len(stream) : ~IsErrorRecord(stream[k])

\* the stream was closed after an error record
C14_WitnessHalt ==
    /\ pc = "done"
    /\ closed = 1
    /\ IsErrorRecord(stream[Len(stream)])


(***************************************************************************)
(* Further properties of loadChunk (SpecLoad)                              *)
(***************************************************************************)
\* C15: loadChunk asks the backend for the shards in the order 0, 1, 2, ...,
\* each index at most once; it makes no call after the join that succeeded; a
\* failed fetch does not end the chunk while untried indices remain: when no
\* join succeeded every index 0..N+M-1 was asked for; with ParityParts = 0
\* exactly one call is made, for shard 0, and its error is returned.
C15_FetchOrder ==
    lc.called =>
        LET res == lc.res
            chunk == lc.chunk
        IN  IF chunk.ParityParts = 0
            THEN /\ res.calls = <<0>>
                 /\ FetchFailed(lc.resp, 0) => (res.err = BackendError /\ ~res.decoded)
                 /\ ~FetchFailed(lc.resp, 0) => res.decoded
            ELSE /\ InOrder(res.calls)
                 /\ res.calls # <<>>
                 /\ Len(res.calls) <= TotalParts(chunk)
                 /\ res.decoded =>
                       /\ res.joins # <<>>
                       /\ res.joins[Len(res.joins)] = res.calls[Len(res.calls)]
                 /\ ~res.decoded => Len(res.calls) = TotalParts(chunk)

\* shard 0 could not be fetched, the join succeeded at shard 1, shard 2 was not asked for
C15_Witness ==
    /\ lc.called
    /\ lc.chunk.ParityParts = 2
    /\ lc.chunk.DataParts = 1
    /\ FetchFailed(lc.resp, 0)
    /\ lc.res.decoded
    /\ lc.res.calls = <<0, 1>>

\* without parity: the one call, for shard 0, failed
C15_WitnessSingle ==
    /\ lc.called
    /\ lc.chunk.ParityParts = 0
    /\ lc.res.calls = <<0>>
    /\ lc.res.err = BackendError


Range(seq) == {seq[k] : k \in 1..Len(seq)}

\* the shard indices at which loadChunk found parsFound >= DataParts
Attempts(res) == Range(res.reconstructs) \cup Range(res.joins)

\* a shard among 0..DataParts-1 could not be fetched
DataShardMissing(chunk, resp) == \E j \in 0..(chunk.DataParts - 1) : FetchFailed(resp, j)

\* C16: in the Reed-Solomon path, each time parsFound >= DataParts is reached,
\* Reconstruct is invoked if and only if a data shard (index 0..DataParts-1) is
\* missing; with all data shards fetched the join is made without Reconstruct,
\* also after a parity shard failed to load or an earlier join failed.
C16_ReconstructIffDataMissing ==
    (lc.called /\ lc.chunk.ParityParts > 0) =>
        \A i \in Attempts(lc.res) :
            i \in Range(lc.res.reconstructs) <=> DataShardMissing(lc.chunk, lc.resp)

\* what the code does: Reconstruct is invoked if and only if some shard tried
\* so far, data or parity, could not be fetched
C16_ReconstructIffAnyMissing ==
    (lc.called /\ lc.chunk.ParityParts > 0) =>
        \A i \in Attempts(lc.res) :
            i \in Range(lc.res.reconstructs) <=> \E j \in 0..i : FetchFailed(lc.resp, j)


(***************************************************************************)
(* Progress accounting (SpecRestore)                                       *)
(***************************************************************************)
\* the records DecodeArchive sent for the archive at index k of the snapshot
RecordsOf(k) == SelectSeq(stream, LAMBDA rec : ~IsErrorRecord(rec) /\ rec.Arc = k)

\* the first record of a File archive
FirstFileRecord(k) ==
    [newProgress(k) EXCEPT !.Files = 1, !.Size = snapshot[k].Size,
                           !.StorageSize = snapshot[k].StorageSize]

\* C17: a successful DecodeArchive of a File archive with n chunks sends n + 1
\* records: the first with Files = 1, Size and StorageSize of the archive and
\* Transferred = 0, then one per chunk in logical order whose two Transferred
\* counters are the sum of the plaintext lengths of the chunks 0..i; Transferred
\* never decreases; a chunk's record is sent only after the chunk was written;
\* a Directory or SymLink archive gets exactly one record, with Dirs = 1
\* resp. SymLinks = 1.
C17_ProgressAccounting ==
    /\ \A k \in 1..Len(returns) :
          LET a == snapshot[k]
              recs == RecordsOf(k)
          IN  /\ a.Type = Directory => recs = <<[newProgress(k) EXCEPT !.Dirs = 1]>>
              /\ a.Type = SymLink => recs = <<[newProgress(k) EXCEPT !.SymLinks = 1]>>
              /\ (a.Type = File /\ returns[k].err = NoError) =>
                    /\ Len(recs) = Len(a.Chunks) + 1
                    /\ recs[1] = FirstFileRecord(k)
                    /\ \A i \in 1..Len(a.Chunks) :
                          recs[i + 1] =
                              [FirstFileRecord(k) EXCEPT
                                  !.Transferred = Len(LogicalConcat(a, i)),
                                  !.ItemTransferred = Len(LogicalConcat(a, i))]
    /\ \A k \in 1..Len(snapshot) :
          LET recs == RecordsOf(k)
          IN  /\ \A i \in 1..(Len(recs) - 1) : recs[i].Transferred <= recs[i + 1].Transferred
              /\ (k = ai /\ snapshot[k].Type = File /\ recs # <<>>) =>
                    Len(recs) - 1 <= Len(written)
              /\ (snapshot[k].Type = File /\ recs # <<>>) =>
                    Len(recs) - 1 <= Cardinality({j \in 1..Len(fh[k].ops) : fh[k].ops[j] = "write"})

\* a file of two chunks was restored: three records, Transferred 0, 1 and 3
C17_Witness ==
    \E k \in 1..Len(returns) :
        /\ snapshot[k].Type = File
        /\ returns[k].err = NoError
        /\ Len(RecordsOf(k)) = 3
        /\ RecordsOf(k)[1].Transferred = 0
        /\ RecordsOf(k)[2].Transferred = 1
        /\ RecordsOf(k)[3].ItemTransferred = 3


(***************************************************************************)
(* Further properties of the cache-backed read path (SpecRead)             *)
(***************************************************************************)
\* C18: the mutex is released on every exit path of a cache lookup: whenever
\* no cache-backed call is in progress (every call has returned, every
\* goroutine has ended) the mutex is free, so a later call can acquire it,
\* also after DecodeArchiveData or readArchiveChunk returned a load error.
C18_MutexFreeWhenIdle ==
    (~crashed /\ \A t \in DOMAIN tk : tk[t].outcome # "running") => mutex = 0

\* the exits that do release it: a call that returned without a load error
\* does not hold the mutex
C18_ReleasedOnSuccess ==
    \A t \in DOMAIN tk :
        (tk[t].outcome = "returned" /\ tk[t].loadErr = NoError) => mutex # t


(***************************************************************************)
(* The counters of DataReconstructionError (SpecLoad)                      *)
(***************************************************************************)
\* C19: whenever loadChunk returns a DataReconstructionError, BlocksFound is
\* less than chunk.DataParts and FailedBackends is DataParts - BlocksFound, a
\* number in 1..DataParts: the unsigned subtraction does not wrap around,
\* whatever the outcome of the shard loop.
C19_NoWrapAround ==
    (lc.called /\ lc.res.err.kind = "DataReconstructionError") =>
        /\ lc.res.err.x < lc.chunk.DataParts
        /\ lc.res.err.y = lc.chunk.DataParts - lc.res.err.x
        /\ 1 <= lc.res.err.y
        /\ lc.res.err.y <= lc.chunk.DataParts

\* what the code does: BlocksFound is the number of the shards fetched, which
\* may be DataParts or more when every Reconstruct or Join failed
C19_BlocksFoundIsFetched ==
    (lc.called /\ lc.res.err.kind = "DataReconstructionError") =>
        /\ lc.res.err.x = Cardinality(Fetchable(lc.resp))
        /\ lc.res.err.y = UintSub(lc.chunk.DataParts, lc.res.err.x)
        /\ lc.res.err.x >= lc.chunk.DataParts => Attempts(lc.res) # {}


\* the entry for h holds the verified plaintext of a chunk with ShaSum h that was loaded
VerifiedEntry(h) ==
    \E c \in ReadChunks :
        /\ c.ShaSum = h
        /\ Sha256Hex(PlainBlob(cache[h].b)) = c.DecryptedShaSum
        /\ [b |-> cache[h].b, err |-> NoError, wrongKey |-> FALSE] \in ReadOutcomes[c]
        /\ loads[h] >= 1

\* C20: the cache holds under a ShaSum only bytes a successful loadChunk of a
\* chunk with that ShaSum returned; a task reads or writes the cache only while
\* it holds the mutex; a failed load leaves the cache unchanged; an entry once
\* present is never removed or replaced.
C20_CacheIntegrity ==
    /\ [](\A h \in DOMAIN cache : cache[h].ok => VerifiedEntry(h))
    /\ [](\A t \in DOMAIN tk : tk[t].pc \in {"lookup", "load"} => mutex = t)
    /\ [][/\ \A h \in DOMAIN cache : cache[h].ok => cache'[h] = cache[h]
          /\ cache' # cache =>
                /\ mutex \in DOMAIN tk
                /\ tk[mutex].pc = "load"
                /\ tk'[mutex].loadErr = NoError
          /\ (\E t \in DOMAIN tk : tk[t].loadErr = NoError /\ tk'[t].loadErr # NoError) =>
                cache' = cache]_vars

\* a chunk is in the cache and was served from it, and a later load failed
C20_Witness ==
    \E h \in DOMAIN cache :
        /\ cache[h].ok
        /\ hits[h] >= 1
        /\ \E t \in DOMAIN tk : tk[t].loadErr # NoError


====
